---- MODULE Spec2Model ----
(***************************************************************************)
(* Model of HPOlibExperimentUtils/core/optimizer.py: the two run           *)
(* coordinators BOHBOptimizer and SMACOptimizer.                           *)
(*                                                                         *)
(* One behaviour is one experiment: an optimizer object is constructed     *)
(* (Optimizer.__init__ plus the subclass constructor) and its run() is     *)
(* executed statement by statement.  The wrapped engines (hpbandster,      *)
(* SMAC, the benchmark) are external: every call into them is modelled by  *)
(* the outcomes it can have for the caller (it returns, or it raises).     *)
(***************************************************************************)
EXTENDS Integers, Sequences, FiniteSets, TLC

\* ---------------------------------------------------------------- bounds

\* optimizer_settings['num_iterations']: iterations master.run performs.
MaxIter == 2
\* Largest number of warm-start iterations the master may hold.
MaxWarm == 2
\* Largest number of evaluations the SMAC engine requests in one optimize().
MaxEvals == 2

\* ------------------------------------------------------- input universes

\* Members of OptimizerEnum; "BOHB" stands for every member other than the
\* two that SMACOptimizer.__init__ tests for.
OptimizerEnum == {"HYPERBAND", "SUCCESSIVE_HALVING", "BOHB"}

\* Configurations drawn from the shared configuration space self.cs.
Configs == {"cfgA", "cfgB"}

\* Budgets the engine hands to the wrapper: floats, as an integral part and
\* a fractional part in tenths (1.5 and 3.0).
Budgets == {[whole |-> 1, tenths |-> 5], [whole |-> 3, tenths |-> 0]}

\* The seed and the instance the engine passes along.
Seeds == {0}
Instances == {"instance"}

\* function_value results of the benchmark.
FunctionValues == {1, 2}

\* benchmark_settings['fidelity_type'] tags and ['fidelity_name'] values.
FidelityTypes == {"int", "float"}
FidelityNames == {"budget", "epochs"}

\* optimizer_settings['output_dir'] and smac.output_dir.
OutputDir == "output_dir"
SmacOutputDir == "smac_output_dir"

NoResult == [kind |-> "unbound", data |-> << >>]
NoneResult == [kind |-> "None", data |-> << >>]
NoIncumbent == [cfg |-> "None", value |-> 0]
UnboundIncumbent == [cfg |-> "unbound", value |-> 0]

VARIABLES
    pc,                  \* position in the constructor / in run()
    intensifier,         \* the intensifier argument of the constructor
    selfIntensifier,     \* self.intensifier
    benchmarkSettings,   \* self.benchmark_settings
    csCalls,             \* calls of benchmark.get_configuration_space()
    exc,                 \* exception that left the constructor or run()
    raisedAt,            \* the statement that raised it
    retval,              \* what run() returned
    log,                 \* logger.info messages, in order
    \* BOHBOptimizer.run
    nsRunning,           \* the name server (rendezvous service) is up
    workerRunning,       \* the background worker is up
    alarm,               \* time_limit: "idle", "armed", "fired", "cancelled"
    iterations,          \* master.iterations (the data of each)
    warmstart,           \* master.warmstart_iteration
    result,              \* the local variable result
    masterRet,           \* what master.run returned (history)
    timedOut,            \* a TimeoutException was raised (history)
    fixIdx,              \* position of the for loop of line 76
    masterShutdownCalls, \* calls of master.shutdown(shutdown_workers=True)
    nsShutdownCalls,     \* calls of ns.shutdown()
    \* SMACOptimizer.run
    scenario,            \* the Scenario was built
    smac,                \* the SMAC4HPO engine was created
    evals,               \* evaluations the engine requested
    objCalls,            \* calls of benchmark.objective_function
    wrapRets,            \* what the wrapper returned to the engine
    solverIncumbent,     \* smac.solver.incumbent
    incumbent,           \* the local variable incumbent
    optExc               \* exception smac.optimize() raised (history)

commonVars == <<intensifier, selfIntensifier, benchmarkSettings, csCalls,
                retval, log>>
excVars == <<exc, raisedAt>>
bohbVars == <<nsRunning, workerRunning, alarm, iterations, warmstart, result,
              masterRet, timedOut, fixIdx, masterShutdownCalls,
              nsShutdownCalls>>
smacVars == <<scenario, smac, evals, objCalls, wrapRets, solverIncumbent,
              incumbent, optExc>>
vars == <<pc, commonVars, excVars, bohbVars, smacVars>>

\* -------------------------------------------------------------- helpers

\* master.warmstart_iteration as the master holds it before run(): warm-start
\* iterations whose timestamps are not yet fixed against master.time_ref.
WarmStartIterations(n) ==
    [i \in 1..n |-> [src |-> "warmstart", id |-> i, fixed |-> FALSE]]

\* The data of one regular iteration of master.run.
IterationData(i) == [src |-> "iteration", id |-> i, fixed |-> TRUE]

\* hpres.Result(data, master.config): the result object over a list of data.
Result(kind, data) == [kind |-> kind, data |-> data]

\* A statement raises: the exception leaves run() (nothing in run() catches
\* anything but TimeoutException around master.run).
Raise(e, at) ==
    /\ exc' = e
    /\ raisedAt' = at

BenchmarkSettingsSpace ==
    [fidelity_name : FidelityNames, fidelity_type : FidelityTypes,
     name : {"benchmark"}]

Init ==
    /\ pc = "new"
    /\ intensifier \in OptimizerEnum
    /\ selfIntensifier = "unset"
    /\ benchmarkSettings \in BenchmarkSettingsSpace
    /\ csCalls = 0
    /\ exc = "none"
    /\ raisedAt = "none"
    /\ retval = "none"
    /\ log = << >>
    /\ nsRunning = FALSE
    /\ workerRunning = FALSE
    /\ alarm = "idle"
    /\ iterations = << >>
    /\ \E n \in 0..MaxWarm : warmstart = WarmStartIterations(n)
    /\ result = NoResult
    /\ masterRet = NoResult
    /\ timedOut = FALSE
    /\ fixIdx = 0
    /\ masterShutdownCalls = 0
    /\ nsShutdownCalls = 0
    /\ scenario = FALSE
    /\ smac = FALSE
    /\ evals = << >>
    /\ objCalls = << >>
    /\ wrapRets = << >>
    /\ solverIncumbent = NoIncumbent
    /\ incumbent = UnboundIncumbent
    /\ optExc = "none"

\* ------------------------------------------------- BOHBOptimizer.__init__

\* Optimizer.__init__ (lines 22-28), which both constructors run first: it
\* asks the benchmark for its configuration space and stores its arguments.
\* si is self.intensifier as the constructor leaves it.
OptimizerInit(si) ==
    /\ csCalls' = csCalls + 1
    /\ selfIntensifier' = si

\* Lines 38-40.
BOHBInit ==
    /\ pc = "new"
    /\ OptimizerInit(intensifier)
    /\ pc' = "b_ns"
    /\ UNCHANGED <<intensifier, benchmarkSettings, retval, log, excVars,
                   bohbVars, smacVars>>

\* ------------------------------------------------------ BOHBOptimizer.run

\* Lines 46-51: the result logger, the name server and ns.start().
NsStart ==
    /\ pc = "b_ns"
    /\ nsRunning' = TRUE
    /\ pc' = "b_worker"
    /\ UNCHANGED <<commonVars, excVars, smacVars, workerRunning, alarm,
                   iterations, warmstart, result, masterRet, timedOut, fixIdx,
                   masterShutdownCalls, nsShutdownCalls>>

\* Lines 53-69: the worker is launched in the background, the master built.
WorkerRun ==
    /\ pc = "b_worker"
    /\ workerRunning' = TRUE
    /\ pc' = "b_with"
    /\ UNCHANGED <<commonVars, excVars, smacVars, nsRunning, alarm,
                   iterations, warmstart, result, masterRet, timedOut, fixIdx,
                   masterShutdownCalls, nsShutdownCalls>>

\* Line 73: entering time_limit arms the deadline.
TimeLimitEnter ==
    /\ pc = "b_with"
    /\ alarm' = "armed"
    /\ pc' = "b_run"
    /\ UNCHANGED <<commonVars, excVars, smacVars, nsRunning, workerRunning,
                   iterations, warmstart, result, masterRet, timedOut, fixIdx,
                   masterShutdownCalls, nsShutdownCalls>>

\* Line 74, inside master.run: one more iteration is registered.
MasterIterate ==
    /\ pc = "b_run"
    /\ Len(iterations) < MaxIter
    /\ iterations' = Append(iterations, IterationData(Len(iterations) + 1))
    /\ UNCHANGED <<pc, commonVars, excVars, smacVars, nsRunning,
                   workerRunning, alarm, warmstart, result, masterRet,
                   timedOut, fixIdx, masterShutdownCalls, nsShutdownCalls>>

\* What master.run returns once its loop is over: a Result over all
\* iterations and the warm-start iterations, or None.
MasterRunValue(isNone) ==
    IF isNone THEN NoneResult
    ELSE Result("complete",
                iterations
                \o [i \in 1..Len(warmstart) |-> [warmstart[i] EXCEPT !.fixed = TRUE]])

\* Line 74: master.run returns and its value is bound to result; the with
\* block has not been left yet.
MasterRunReturns ==
    /\ pc = "b_run"
    /\ Len(iterations) = MaxIter
    /\ \E isNone \in BOOLEAN :
          /\ result' = MasterRunValue(isNone)
          /\ masterRet' = MasterRunValue(isNone)
    /\ pc' = "b_with_exit"
    /\ UNCHANGED <<commonVars, excVars, smacVars, nsRunning, workerRunning,
                   alarm, iterations, warmstart, timedOut, fixIdx,
                   masterShutdownCalls, nsShutdownCalls>>

\* Line 74: master.run raises an exception that is not TimeoutException.
\* Leaving the with block cancels the deadline; no except clause matches.
MasterRunRaises ==
    /\ pc = "b_run"
    /\ alarm' = "cancelled"
    /\ Raise("RuntimeError", "master.run")
    /\ pc' = "b_raised"
    /\ UNCHANGED <<commonVars, smacVars, nsRunning, workerRunning,
                   iterations, warmstart, result, masterRet, timedOut, fixIdx,
                   masterShutdownCalls, nsShutdownCalls>>

\* Lines 73-75: the deadline signal is delivered while the with block is
\* active; its handler raises TimeoutException in the main thread, which the
\* except clause of line 75 catches.
DeadlineSignal ==
    /\ pc \in {"b_run", "b_with_exit"}
    /\ alarm = "armed"
    /\ alarm' = "fired"
    /\ timedOut' = TRUE
    /\ fixIdx' = 0
    /\ pc' = "b_except"
    /\ UNCHANGED <<commonVars, excVars, smacVars, nsRunning, workerRunning,
                   iterations, warmstart, result, masterRet,
                   masterShutdownCalls, nsShutdownCalls>>

\* Line 73: the with block is left normally; the deadline is cancelled.
TimeLimitExit ==
    /\ pc = "b_with_exit"
    /\ alarm = "armed"
    /\ alarm' = "cancelled"
    /\ pc' = "b_master_shutdown"
    /\ UNCHANGED <<commonVars, excVars, smacVars, nsRunning, workerRunning,
                   iterations, warmstart, result, masterRet, timedOut, fixIdx,
                   masterShutdownCalls, nsShutdownCalls>>

\* Lines 76-77: one pass of the loop, iteration.fix_timestamps(time_ref).
FixTimestamps ==
    /\ pc = "b_except"
    /\ fixIdx < Len(warmstart)
    /\ fixIdx' = fixIdx + 1
    /\ warmstart' = [warmstart EXCEPT ![fixIdx + 1].fixed = TRUE]
    /\ UNCHANGED <<pc, commonVars, excVars, smacVars, nsRunning,
                   workerRunning, alarm, iterations, result, masterRet,
                   timedOut, masterShutdownCalls, nsShutdownCalls>>

\* Lines 76-77: fix_timestamps raises; the handler is left by the exception.
FixTimestampsRaises ==
    /\ pc = "b_except"
    /\ fixIdx < Len(warmstart)
    /\ Raise("RuntimeError", "fix_timestamps")
    /\ pc' = "b_raised"
    /\ UNCHANGED <<commonVars, smacVars, bohbVars>>

\* Lines 78-79: the result assembled in the except clause.
RecoveredResult == Result("recovered", iterations \o warmstart)

\* Lines 78-80 with the handler going straight on to the post-processing.
AssembleResultNoTeardown ==
    /\ pc = "b_except"
    /\ fixIdx = Len(warmstart)
    /\ result' = RecoveredResult
    /\ log' = Append(log, "WALLCLOCK LIMIT REACHED")
    /\ pc' = "b_post"
    /\ UNCHANGED <<intensifier, selfIntensifier, benchmarkSettings, csCalls,
                   retval, excVars, smacVars, nsRunning, workerRunning, alarm,
                   iterations, warmstart, masterRet, timedOut, fixIdx,
                   masterShutdownCalls, nsShutdownCalls>>

\* Lines 78-80: ws_data, the recovered result, the log message.
AssembleResult ==
    /\ pc = "b_except"
    /\ fixIdx = Len(warmstart)
    /\ result' = RecoveredResult
    /\ log' = Append(log, "WALLCLOCK LIMIT REACHED")
    /\ pc' = "b_master_shutdown"
    /\ UNCHANGED <<intensifier, selfIntensifier, benchmarkSettings, csCalls,
                   retval, excVars, smacVars, nsRunning, workerRunning, alarm,
                   iterations, warmstart, masterRet, timedOut, fixIdx,
                   masterShutdownCalls, nsShutdownCalls>>

\* Line 82 as master.shutdown() without shutdown_workers=True: the worker
\* stays up.
MasterShutdownKeepsWorkers ==
    /\ pc = "b_master_shutdown"
    /\ masterShutdownCalls' = masterShutdownCalls + 1
    /\ pc' = "b_ns_shutdown"
    /\ UNCHANGED <<commonVars, excVars, smacVars, nsRunning, workerRunning,
                   alarm, iterations, warmstart, result, masterRet, timedOut,
                   fixIdx, nsShutdownCalls>>

\* Line 82: master.shutdown(shutdown_workers=True) returns.
MasterShutdown ==
    /\ pc = "b_master_shutdown"
    /\ masterShutdownCalls' = masterShutdownCalls + 1
    /\ workerRunning' = FALSE
    /\ pc' = "b_ns_shutdown"
    /\ UNCHANGED <<commonVars, excVars, smacVars, nsRunning, alarm,
                   iterations, warmstart, result, masterRet, timedOut, fixIdx,
                   nsShutdownCalls>>

\* Line 82: master.shutdown raises; line 83 is never reached.
MasterShutdownRaises ==
    /\ pc = "b_master_shutdown"
    /\ masterShutdownCalls' = masterShutdownCalls + 1
    /\ Raise("RuntimeError", "master.shutdown")
    /\ pc' = "b_raised"
    /\ UNCHANGED <<commonVars, smacVars, nsRunning, workerRunning, alarm,
                   iterations, warmstart, result, masterRet, timedOut, fixIdx,
                   nsShutdownCalls>>

\* Line 83: ns.shutdown() returns.
NsShutdown ==
    /\ pc = "b_ns_shutdown"
    /\ nsShutdownCalls' = nsShutdownCalls + 1
    /\ nsRunning' = FALSE
    /\ pc' = "b_post"
    /\ UNCHANGED <<commonVars, excVars, smacVars, workerRunning, alarm,
                   iterations, warmstart, result, masterRet, timedOut, fixIdx,
                   masterShutdownCalls>>

\* Line 83: ns.shutdown() raises.
NsShutdownRaises ==
    /\ pc = "b_ns_shutdown"
    /\ nsShutdownCalls' = nsShutdownCalls + 1
    /\ Raise("RuntimeError", "ns.shutdown")
    /\ pc' = "b_raised"
    /\ UNCHANGED <<commonVars, smacVars, nsRunning, workerRunning, alarm,
                   iterations, warmstart, result, masterRet, timedOut, fixIdx,
                   masterShutdownCalls>>

\* Line 85: result is None, the post-processing is skipped.
PostProcessSkip ==
    /\ pc = "b_post"
    /\ result.kind = "None"
    /\ pc' = "b_return"
    /\ UNCHANGED <<commonVars, excVars, smacVars, bohbVars>>

\* Lines 86-91: the incumbent id, its last loss and its configuration are
\* looked up and logged.  An incumbent exists only among the result's data.
PostProcess ==
    /\ pc = "b_post"
    /\ result.kind # "None"
    /\ Len(result.data) > 0
    /\ log' = Append(log, "Inc Config")
    /\ pc' = "b_return"
    /\ UNCHANGED <<intensifier, selfIntensifier, benchmarkSettings, csCalls,
                   retval, excVars, smacVars, bohbVars>>

\* Lines 87-89: a lookup fails.  get_incumbent_id() gives None for a result
\* without a run at the maximal budget (always so for a result without
\* data), and get_runs_by_id(None) then raises KeyError.
PostProcessRaises ==
    /\ pc = "b_post"
    /\ result.kind # "None"
    /\ Raise("KeyError", "postprocess")
    /\ pc' = "b_raised"
    /\ UNCHANGED <<commonVars, smacVars, bohbVars>>

\* Line 93.
BOHBReturn ==
    /\ pc = "b_return"
    /\ retval' = OutputDir
    /\ pc' = "b_returned"
    /\ UNCHANGED <<intensifier, selfIntensifier, benchmarkSettings, csCalls,
                   log, excVars, smacVars, bohbVars>>

BOHBRun ==
    \/ NsStart
    \/ WorkerRun
    \/ TimeLimitEnter
    \/ MasterIterate
    \/ MasterRunReturns
    \/ MasterRunRaises
    \/ DeadlineSignal
    \/ TimeLimitExit
    \/ FixTimestamps
    \/ FixTimestampsRaises
    \/ AssembleResult
    \/ MasterShutdown
    \/ MasterShutdownRaises
    \/ NsShutdown
    \/ NsShutdownRaises
    \/ PostProcessSkip
    \/ PostProcess
    \/ PostProcessRaises
    \/ BOHBReturn

\* ------------------------------------------------- SMACOptimizer.__init__

\* Lines 100-106 with the else branch falling back to Hyperband.
SelectIntensifierDefault(i) ==
    IF i = "SUCCESSIVE_HALVING" THEN "SuccessiveHalving" ELSE "Hyperband"

\* Lines 100-106: the intensifier class chosen for an OptimizerEnum member,
\* or "ValueError" where the constructor raises.
SelectIntensifier(i) ==
    IF i = "HYPERBAND" THEN "Hyperband"
    ELSE IF i = "SUCCESSIVE_HALVING" THEN "SuccessiveHalving"
    ELSE "ValueError"

\* Lines 97-106: super().__init__ and then the choice of the intensifier.
SMACInit ==
    /\ pc = "new"
    /\ \/ /\ SelectIntensifier(intensifier) # "ValueError"
          /\ OptimizerInit(SelectIntensifier(intensifier))
          /\ pc' = "s_scenario"
          /\ UNCHANGED excVars
       \/ /\ SelectIntensifier(intensifier) = "ValueError"
          /\ OptimizerInit(intensifier)
          /\ Raise("ValueError", "SMACOptimizer.__init__")
          /\ pc' = "ctor_raised"
    /\ UNCHANGED <<intensifier, benchmarkSettings, retval, log, bohbVars,
                   smacVars>>

\* ------------------------------------------------------ SMACOptimizer.run

\* Lines 112-127: the run-count cap and the Scenario.
BuildScenario ==
    /\ pc = "s_scenario"
    /\ scenario' = TRUE
    /\ pc' = "s_smac"
    /\ UNCHANGED <<commonVars, excVars, bohbVars, smac, evals, objCalls,
                   wrapRets, solverIncumbent, incumbent, optExc>>

\* Lines 136-143: the SMAC4HPO engine is created around the wrapper.
CreateSMAC ==
    /\ pc = "s_smac"
    /\ smac' = TRUE
    /\ pc' = "s_try"
    /\ UNCHANGED <<commonVars, excVars, bohbVars, scenario, evals, objCalls,
                   wrapRets, solverIncumbent, incumbent, optExc>>

\* Lines 144-146: smac.optimize() is entered.
OptimizeEnter ==
    /\ pc = "s_try"
    /\ pc' = "s_optimize"
    /\ UNCHANGED <<commonVars, excVars, bohbVars, smacVars>>

\* parse_fidelity_type(tag)(budget): int() truncates towards zero, float()
\* keeps the value.
FidelityType(tag, budget) ==
    IF tag = "int"
    THEN [type |-> "int", whole |-> budget.whole, tenths |-> 0]
    ELSE [type |-> "float", whole |-> budget.whole, tenths |-> budget.tenths]

\* Lines 131-133 with the budget passed on as the engine gave it.
ObjectiveArgsRawBudget(cfg, seed, instance, budget) ==
    [cfg |-> cfg,
     kwargs |-> (benchmarkSettings.fidelity_name
                    :> [type |-> "float", whole |-> budget.whole,
                        tenths |-> budget.tenths])
                @@ benchmarkSettings]

\* Lines 131-133: the arguments of the one call of
\* benchmark.objective_function(cfg, **fidelity, **self.benchmark_settings).
ObjectiveArgs(cfg, seed, instance, budget) ==
    [cfg |-> cfg,
     kwargs |-> (benchmarkSettings.fidelity_name
                    :> FidelityType(benchmarkSettings.fidelity_type, budget))
                @@ benchmarkSettings]

\* Lines 129-134: what one invocation of optimization_function_wrapper does
\* to the record of objective calls; outcome is what the benchmark did.
WrapperObjectiveCalls(cfg, seed, instance, budget, outcome) ==
    Append(objCalls,
           [args |-> ObjectiveArgs(cfg, seed, instance, budget),
            outcome |-> outcome])

\* Line 134: what the wrapper hands back for a call that returned.
WrapperReturn(outcome) ==
    IF outcome.kind = "return"
    THEN [kind |-> "return", value |-> outcome.function_value]
    ELSE [kind |-> "raise", value |-> 0]

\* The outcomes of one benchmark.objective_function call: a result dict with
\* its 'function_value', or an exception.
ObjectiveOutcomes ==
    [kind : {"return"}, function_value : FunctionValues]
    \cup {[kind |-> "raise", function_value |-> 0]}

\* smac.solver.incumbent after an evaluation: the engine keeps the
\* configuration with the lowest value returned so far.
NewIncumbent(cfg, ret) ==
    IF ret.kind = "return"
       /\ (solverIncumbent.cfg = "None" \/ ret.value < solverIncumbent.value)
    THEN [cfg |-> cfg, value |-> ret.value]
    ELSE solverIncumbent

\* Lines 129-134 under line 146: the engine requests one evaluation and
\* invokes the wrapper with (cfg, seed, instance, budget).
EngineEvaluate ==
    /\ pc = "s_optimize"
    /\ Len(evals) < MaxEvals
    /\ \E cfg \in Configs, seed \in Seeds, instance \in Instances,
          budget \in Budgets, outcome \in ObjectiveOutcomes :
          /\ evals' = Append(evals, [cfg |-> cfg, seed |-> seed,
                                     instance |-> instance, budget |-> budget])
          /\ objCalls' = WrapperObjectiveCalls(cfg, seed, instance, budget, outcome)
          /\ wrapRets' = Append(wrapRets, WrapperReturn(outcome))
          /\ solverIncumbent' = NewIncumbent(cfg, WrapperReturn(outcome))
    /\ UNCHANGED <<pc, commonVars, excVars, bohbVars, scenario, smac,
                   incumbent, optExc>>

\* Line 146: smac.optimize() returns.
OptimizeReturns ==
    /\ pc = "s_optimize"
    /\ pc' = "s_finally"
    /\ UNCHANGED <<commonVars, excVars, bohbVars, smacVars>>

\* Line 146: smac.optimize() raises.
OptimizeRaises ==
    /\ pc = "s_optimize"
    /\ optExc' = "EngineError"
    /\ pc' = "s_finally"
    /\ UNCHANGED <<commonVars, excVars, bohbVars, scenario, smac, evals,
                   objCalls, wrapRets, solverIncumbent, incumbent>>

\* Lines 145-148 as try/else: the incumbent is read only when
\* smac.optimize() returned.
FinallyAsElse ==
    /\ pc = "s_finally"
    /\ \/ /\ optExc = "none"
          /\ incumbent' = solverIncumbent
          /\ pc' = "s_log"
          /\ UNCHANGED excVars
       \/ /\ optExc # "none"
          /\ incumbent' = incumbent
          /\ Raise(optExc, "smac.optimize")
          /\ pc' = "s_raised"
    /\ UNCHANGED <<commonVars, bohbVars, scenario, smac, evals, objCalls,
                   wrapRets, solverIncumbent, optExc>>

\* Lines 147-148: the finally clause reads smac.solver.incumbent; a pending
\* exception is re-raised at its end.
Finally ==
    /\ pc = "s_finally"
    /\ incumbent' = solverIncumbent
    /\ \/ /\ optExc = "none"
          /\ pc' = "s_log"
          /\ UNCHANGED excVars
       \/ /\ optExc # "none"
          /\ Raise(optExc, "smac.optimize")
          /\ pc' = "s_raised"
    /\ UNCHANGED <<commonVars, bohbVars, scenario, smac, evals, objCalls,
                   wrapRets, solverIncumbent, optExc>>

\* Lines 149-150: the incumbent is reported.
LogIncumbent ==
    /\ pc = "s_log"
    /\ log' = Append(log, "Finished Optimization")
    /\ pc' = "s_return"
    /\ UNCHANGED <<intensifier, selfIntensifier, benchmarkSettings, csCalls,
                   retval, excVars, bohbVars, smacVars>>

\* Line 152.
SMACReturn ==
    /\ pc = "s_return"
    /\ retval' = SmacOutputDir
    /\ pc' = "s_returned"
    /\ UNCHANGED <<intensifier, selfIntensifier, benchmarkSettings, csCalls,
                   log, excVars, bohbVars, smacVars>>

SMACRun ==
    \/ BuildScenario
    \/ CreateSMAC
    \/ OptimizeEnter
    \/ EngineEvaluate
    \/ OptimizeReturns
    \/ OptimizeRaises
    \/ Finally
    \/ LogIncumbent
    \/ SMACReturn

Next ==
    \/ BOHBInit
    \/ BOHBRun
    \/ SMACInit
    \/ SMACRun

\* --------------------------------------------------------------- claims

\* run() of BOHBOptimizer is over: it returned or an exception left it.
BOHBExited == pc \in {"b_returned", "b_raised"}

\* The statements of run() after the teardown of lines 82-83.
BOHBAfterTeardown == pc \in {"b_post", "b_return", "b_returned"}

\* run() of SMACOptimizer is over.
SMACExited == pc \in {"s_returned", "s_raised"}

\* The positions of SMACOptimizer.run.
SMACRunPcs == {"s_scenario", "s_smac", "s_try", "s_optimize", "s_finally",
               "s_log", "s_return", "s_returned", "s_raised"}

\* A Result object is bound to result.
ResultObtained == result.kind \in {"complete", "recovered"}

Range(seq) == {seq[i] : i \in 1..Len(seq)}

\* C1: in BOHBOptimizer.run, on the completed and on the timed-out path,
\* master.shutdown(shutdown_workers=True) has been invoked exactly once and
\* ns.shutdown() exactly once before run returns (and neither is ever
\* invoked twice).
C1_ShutdownOncePerRun ==
    /\ masterShutdownCalls <= 1
    /\ nsShutdownCalls <= 1
    /\ BOHBAfterTeardown => masterShutdownCalls = 1 /\ nsShutdownCalls = 1

\* C1 witness: a run interrupted by the deadline has returned after one
\* call of each shutdown.
C1_Witness ==
    /\ pc = "b_returned"
    /\ timedOut
    /\ masterShutdownCalls = 1
    /\ nsShutdownCalls = 1

\* C2: the rendezvous service and the worker are torn down on every exit
\* path of BOHBOptimizer.run, also when master.run raises something other
\* than TimeoutException and when the timeout recovery raises.
C2_TeardownOnEveryExit ==
    BOHBExited => /\ masterShutdownCalls = 1
                  /\ nsShutdownCalls = 1
                  /\ ~nsRunning
                  /\ ~workerRunning

\* C3: a TimeoutException raised under the time limit never reaches the
\* caller: the result is assembled from the data of master.iterations
\* followed by the data of the warm-start iterations, each with its
\* timestamps fixed, and run returns optimizer_settings['output_dir'].
\* Runs in which fix_timestamps or a shutdown call raised are the subject of
\* C2 and C8 and are left aside, so that a violation is one of this claim
\* alone.
C3_TimeoutAlwaysReturns ==
    (timedOut /\ raisedAt \notin {"fix_timestamps", "master.shutdown",
                                  "ns.shutdown"}) =>
        /\ exc # "TimeoutException"
        /\ pc # "b_except" =>
              /\ result.kind = "recovered"
              /\ result.data = iterations \o warmstart
              /\ \A i \in 1..Len(warmstart) : warmstart[i].fixed
        /\ pc # "b_raised"
        /\ pc = "b_returned" => retval = OutputDir

\* C4: in SMACOptimizer.run the incumbent is read from smac.solver on every
\* exit of smac.optimize(); when smac.optimize() raised, that same
\* exception reaches the caller of run after the read.
C4_IncumbentReadOnEveryExit ==
    /\ pc \in {"s_log", "s_return", "s_returned", "s_raised"} =>
          incumbent = solverIncumbent
    /\ optExc # "none" => pc \in {"s_finally", "s_raised"}
    /\ pc = "s_raised" => /\ optExc # "none"
                          /\ exc = optExc
                          /\ raisedAt = "smac.optimize"
                          /\ retval = "none"

\* C4 witness: smac.optimize() raised after an evaluation, the incumbent
\* found so far was read and the exception left run.
C4_Witness ==
    /\ pc = "s_raised"
    /\ exc = "EngineError"
    /\ incumbent.cfg \in Configs

\* C5: in SMACOptimizer.run the incumbent is retrieved and reported
\* (logged) on every exit of the optimization call, also when
\* smac.optimize() raises.
C5_IncumbentReportedOnEveryExit ==
    SMACExited => /\ incumbent = solverIncumbent
                  /\ "Finished Optimization" \in Range(log)

\* C6: the constructor of SMACOptimizer raises ValueError for an
\* intensifier other than HYPERBAND and SUCCESSIVE_HALVING before any
\* Scenario or engine exists, and run is never entered for that object;
\* the two supported members select Hyperband and SuccessiveHalving and
\* raise nothing.
C6_UnsupportedIntensifierFailsFast ==
    /\ pc = "ctor_raised" =>
          /\ intensifier \notin {"HYPERBAND", "SUCCESSIVE_HALVING"}
          /\ exc = "ValueError"
          /\ ~scenario
          /\ ~smac
          /\ evals = << >>
          /\ objCalls = << >>
          /\ retval = "none"
    /\ pc \in SMACRunPcs =>
          /\ intensifier \in {"HYPERBAND", "SUCCESSIVE_HALVING"}
          /\ intensifier = "HYPERBAND" => selfIntensifier = "Hyperband"
          /\ intensifier = "SUCCESSIVE_HALVING" =>
                selfIntensifier = "SuccessiveHalving"
          /\ exc # "ValueError"
    /\ (scenario \/ smac) => pc \in SMACRunPcs

\* C6 witness: the constructor has raised for an unsupported member.
C6_Witness ==
    /\ pc = "ctor_raised"
    /\ intensifier = "BOHB"
    /\ exc = "ValueError"

C8_CleanupUnconditional ==
    /\ raisedAt \in {"master.shutdown", "ns.shutdown"} => ~ResultObtained
    /\ raisedAt \in {"master.shutdown", "ns.shutdown", "postprocess"} =>
          masterShutdownCalls = 1 /\ nsShutdownCalls = 1

\* The fidelity value the claim expects for a budget: the budget as the
\* benchmark's declared fidelity type.
C9_Coerced(budget) ==
    IF benchmarkSettings.fidelity_type = "int"
    THEN [type |-> "int", whole |-> budget.whole, tenths |-> 0]
    ELSE [type |-> "float", whole |-> budget.whole, tenths |-> budget.tenths]

\* C9: every invocation of the wrapper makes exactly one call of
\* benchmark.objective_function with the unchanged cfg, the budget coerced
\* to the declared fidelity type under the key fidelity_name and all of
\* the benchmark settings, and returns that call's 'function_value'; the
\* number of objective calls equals the number of evaluations requested.
C9_OneObjectiveCallPerEvaluation ==
    /\ Len(objCalls) = Len(evals)
    /\ Len(wrapRets) = Len(evals)
    /\ \A i \in 1..Len(evals) :
          /\ objCalls[i].args.cfg = evals[i].cfg
          /\ DOMAIN objCalls[i].args.kwargs =
                DOMAIN benchmarkSettings \cup {benchmarkSettings.fidelity_name}
          /\ objCalls[i].args.kwargs[benchmarkSettings.fidelity_name] =
                C9_Coerced(evals[i].budget)
          /\ \A k \in DOMAIN benchmarkSettings :
                objCalls[i].args.kwargs[k] = benchmarkSettings[k]
          /\ objCalls[i].outcome.kind = "return" =>
                /\ wrapRets[i].kind = "return"
                /\ wrapRets[i].value = objCalls[i].outcome.function_value
          /\ objCalls[i].outcome.kind = "raise" => wrapRets[i].kind = "raise"

\* C9 witness: two evaluations were requested, one with a fractional budget
\* that the int fidelity type truncates, and the wrapper returned a value.
C9_Witness ==
    /\ Len(evals) = 2
    /\ benchmarkSettings.fidelity_type = "int"
    /\ evals[1].budget.tenths # 0
    /\ objCalls[1].args.kwargs[benchmarkSettings.fidelity_name].tenths = 0
    /\ wrapRets[2].kind = "return"
    /\ wrapRets[2].value = 2

\* C10: in BOHBOptimizer.run both shutdowns have finished before the
\* post-processing of the result begins, so a failing post-processing
\* leaves neither the rendezvous service nor the worker running; it does
\* keep run from returning the output directory, as for the empty result
\* of a timeout before any iteration.
C10_TeardownBeforePostProcessing ==
    /\ (BOHBAfterTeardown \/ raisedAt = "postprocess") =>
          /\ masterShutdownCalls = 1
          /\ nsShutdownCalls = 1
          /\ ~nsRunning
          /\ ~workerRunning
    /\ raisedAt = "postprocess" => pc = "b_raised" /\ retval = "none"
    /\ (pc \in {"b_return", "b_returned"} /\ result.kind # "None") =>
          Len(result.data) > 0

\* C10 witness: the deadline fired before any iteration, the recovered
\* result is empty, the post-processing raised after the teardown.
C10_Witness ==
    /\ pc = "b_raised"
    /\ raisedAt = "postprocess"
    /\ timedOut
    /\ result = Result("recovered", << >>)
    /\ ~nsRunning
    /\ ~workerRunning

Spec == Init /\ [][Next]_vars

====
